---- MODULE Spec2Model ----
(***************************************************************************)
(* Model of the health-data ingestion pipeline: daily_import.py (the       *)
(* orchestrator), the four importers (import_healthkit.py,                 *)
(* import_workouts.py, import_medications.py, import_cycletracking.py),    *)
(* sync_libre.py, init_db.py, migrate_add_file_hash.py and validate.py.    *)
(* Spec is the pipeline with the source folder written between processes,  *)
(* RewriteSpec adds the exporter replacing a file while a batch run is in  *)
(* its import loops, and UnitSpec calls the parsing functions and the      *)
(* validator's checks on their own over bounded inputs.                    *)
(*                                                                         *)
(* Text is a sequence of tokens: a word is one token, a blank and each     *)
(* parenthesis or colon is a token of its own.  A timestamp is a positive  *)
(* integer.  The bytes of a file are an identifier of one byte string;     *)
(* read_csv maps it to the table pandas would parse from those bytes.      *)
(***************************************************************************)
EXTENDS Integers, Sequences, FiniteSets, TLC

\* ------------------------------------------------------------------ bounds
\* the number of processes (batch runs, importer command lines, glucose
\* syncs) started in one behaviour; it is also the clock behind datetime.now()
MaxClock == 2
\* the number of times the exporter writes a file into the source folder
MaxExports == 2
\* the longest text, in tokens, handed to parse_metric_column or to
\* parse_duration when the function is called on its own
MaxLen == 5
\* the last day of the databases the validator's checks are called on
MaxDay == 6

\* ---------------------------------------------------------------- sentinels
NULL == -1      \* SQL NULL / Python None
NaN  == -1      \* an empty numeric cell as pandas reads it
NaT  == 0       \* an empty or coerced timestamp
BadDate == -2   \* a timestamp cell that pd.to_datetime cannot parse
NaS  == "NaN"   \* an empty text cell as pandas reads it
Absent == 0     \* no file under that name

\* ------------------------------------------------------------------ helpers
Range(s) == {s[i] : i \in 1..Len(s)}

IndexOf(s, x) ==
    IF \E i \in 1..Len(s) : s[i] = x
    THEN CHOOSE i \in 1..Len(s) : s[i] = x /\ \A j \in 1..(i-1) : s[j] # x
    ELSE 0

\* str.strip() on a token sequence
RECURSIVE LStrip(_)
LStrip(s) == IF s # <<>> /\ Head(s) = " " THEN LStrip(Tail(s)) ELSE s
RECURSIVE RStrip(_)
RStrip(s) ==
    IF s # <<>> /\ s[Len(s)] = " " THEN RStrip(SubSeq(s, 1, Len(s) - 1)) ELSE s
Strip(s) == RStrip(LStrip(s))

\* int()/float() of a text: the numerals the model's files use
Numerals == [t \in {"00", "01", "02", "03", "05", "30", "2"} |->
               CASE t = "00" -> 0 [] t = "01" -> 1 [] t = "02" -> 2
                 [] t = "03" -> 3 [] t = "05" -> 5 [] t = "30" -> 30
                 [] t = "2" -> 2]
\* int(x) accepts blanks around the digits
IsNumeral(part) == Len(Strip(part)) = 1 /\ Strip(part)[1] \in DOMAIN Numerals
IntOf(part) == Numerals[Strip(part)[1]]

\* ------------------------------------------------------- file names, routing
\* A file name is <<prefix, rest>>.  SortedNames lists the names the model
\* uses in the order sorted() gives them.
SortedNames == << <<"CycleTracking-", "a.csv">>,
                  <<"HaishanYe_glucose_", "a.csv">>,
                  <<"HealthMetrics-", "a.csv">>,
                  <<"Medications-", "a.csv">>,
                  <<"Notes-", "a.csv">>,
                  <<"Workouts-", "a.csv">> >>
Names == Range(SortedNames)
StartsWith(name, prefix) == name[1] = prefix

\* --------------------------------------------------------------- the files
DateTimeCol == <<"Date/Time">>
HRbpm   == <<"Heart", " ", "Rate", " ", "(", "bpm", ")">>
HRcount == <<"Heart", " ", "Rate", "(", "count", ")">>
Steps   == <<"Steps">>

\* the byte strings of the model, each given as the table read_csv makes of it
Library ==
    << [header |-> <<DateTimeCol, HRbpm, Steps>>,
        rows |-> << <<1, 60, NaN>> >>],
       [header |-> <<DateTimeCol, HRbpm, HRcount, Steps>>,
        rows |-> << <<1, 70, 71, NaN>>, <<2, 250, NaN, 900>> >>],
       [header |-> << <<"Start">>, <<"End">>, <<"Type">>, <<"Duration">> >>,
        rows |-> << <<1, 2, "Run", <<"05", ":", "30">> >> >>],
       [header |-> << <<"Start">>, <<"End">>, <<"Type">>, <<"Duration">> >>,
        rows |-> << <<1, 2, "Run", <<"01", ":", "02", ":", "03">> >>,
                    <<2, NaT, "Walk", <<"garbage">> >>,
                    <<2, 3, "Walk", <<"05", ":", "30">> >> >>],
       [header |-> << <<"Date">>, <<"Medication">>, <<"Dosage">>, <<"Archived">> >>,
        rows |-> << <<1, "Aspirin", 100, "No">>,
                    <<2, "Aspirin", 100, "Yes">> >>],
       [header |-> << <<"Start">>, <<"Data">>, <<"Value">> >>,
        rows |-> << <<1, "Menstrual Flow", "Heavy">>,
                    <<2, "Menstrual Flow", "Spotting">> >>],
       [header |-> << <<"Device">>, <<"Glucose">> >>,
        rows |-> << <<1, 100>> >>],
       [header |-> <<DateTimeCol, HRbpm>>,
        rows |-> << <<1, 60>>, <<BadDate, 61>> >>] >>
Bytes == DOMAIN Library

\* pd.read_csv
ReadCsv(b) == Library[b]

\* the files the exporter can write under each name
Exports(name) ==
    CASE StartsWith(name, "HealthMetrics-") -> {1, 2, 7, 8}
      [] StartsWith(name, "Workouts-") -> {3, 4}
      [] StartsWith(name, "Medications-") -> {5}
      [] StartsWith(name, "CycleTracking-") -> {6}
      [] StartsWith(name, "HaishanYe_glucose_") -> {7}
      [] OTHER -> {1}

\* calculate_file_hash: SHA-256 as an injective digest of the byte string
calculate_file_hash(b) == ((b * 37) + 11) % 101

ColIndex(t, col) == IndexOf(t.header, col)

\* ------------------------------------------------------ import_healthkit.py
\* parse_metric_column: re.match(r'^(.+?)\s*\(([^)]+)\)$', column_name).
\* MatchAt(c, e) is the position of the "(" when group 1 is c[1..e]: blanks,
\* then "(", then one or more tokens other than ")", then ")" at the end.
MatchAt(c, e) ==
    LET n == Len(c)
        ps == {p \in (e+1)..(n-2) :
                 /\ c[p] = "("
                 /\ \A i \in (e+1)..(p-1) : c[i] = " "
                 /\ \A i \in (p+1)..(n-1) : c[i] # ")"
                 /\ c[n] = ")"}
    IN IF ps = {} THEN 0 ELSE CHOOSE p \in ps : TRUE

\* the regular expression with a greedy first group, ^(.+)\s*\(([^)]+)\)$
parse_metric_column_greedy(column_name) ==
    LET n == Len(column_name)
        es == {e \in 1..n : MatchAt(column_name, e) # 0}
    IN IF es = {} THEN <<column_name, <<>> >>
       ELSE LET e == CHOOSE x \in es : \A y \in es : x >= y
                p == MatchAt(column_name, e)
            IN << Strip(SubSeq(column_name, 1, e)),
                  Strip(SubSeq(column_name, p + 1, n - 1)) >>

parse_metric_column(column_name) ==
    LET n == Len(column_name)
        es == {e \in 1..n : MatchAt(column_name, e) # 0}
    IN IF es = {} THEN <<column_name, <<>> >>
       ELSE LET e == CHOOSE x \in es : \A y \in es : x <= y    \* .+? is lazy
                p == MatchAt(column_name, e)
            IN << Strip(SubSeq(column_name, 1, e)),
                  Strip(SubSeq(column_name, p + 1, n - 1)) >>

\* df.melt: one triple per metric column and row, column by column
RECURSIVE Melt(_, _, _)
Melt(t, dt, j) ==
    IF j > Len(t.header) THEN <<>>
    ELSE (IF j = dt THEN <<>>
          ELSE [i \in 1..Len(t.rows) |->
                  [timestamp |-> t.rows[i][dt],
                   metric_raw |-> t.header[j],
                   value |-> t.rows[i][j]]])
         \o Melt(t, dt, j + 1)

ReadingKey(r) == <<r.timestamp, r.metric, r.source>>

\* drop_duplicates(subset=[timestamp, metric, source], keep='first')
RECURSIVE DropDuplicates(_, _)
DropDuplicates(recs, seen) ==
    IF recs = <<>> THEN <<>>
    ELSE IF ReadingKey(Head(recs)) \in seen
         THEN DropDuplicates(Tail(recs), seen)
         ELSE <<Head(recs)>>
              \o DropDuplicates(Tail(recs), seen \cup {ReadingKey(Head(recs))})

\* import_csv up to df_final: [ok |-> FALSE] is the "return -1" or the
\* exception of the code, [ok |-> TRUE, recs |-> df_final] otherwise
NormalizeHealthKit(t, source) ==
    LET dt == ColIndex(t, DateTimeCol)
    IN IF dt = 0 THEN [ok |-> FALSE, recs |-> <<>>]
       ELSE IF \E i \in 1..Len(t.rows) : t.rows[i][dt] = BadDate
       THEN [ok |-> FALSE, recs |-> <<>>]          \* pd.to_datetime raises
       ELSE LET df_long == SelectSeq(Melt(t, dt, 1), LAMBDA r : r.value # NaN)
                df_final == [i \in 1..Len(df_long) |->
                               [timestamp |-> df_long[i].timestamp,
                                metric |-> parse_metric_column(df_long[i].metric_raw)[1],
                                value |-> df_long[i].value,
                                unit |-> parse_metric_column(df_long[i].metric_raw)[2],
                                source |-> source]]
            IN [ok |-> TRUE, recs |-> DropDuplicates(df_final, {})]

\* ------------------------------------------------------- import_workouts.py
\* str.split(":") on a token sequence
RECURSIVE SplitColon(_, _)
SplitColon(s, part) ==
    IF s = <<>> THEN <<part>>
    ELSE IF Head(s) = ":" THEN <<part>> \o SplitColon(Tail(s), <<>>)
    ELSE SplitColon(Tail(s), Append(part, Head(s)))

\* two parts are read as hours and minutes
parse_duration_as_hours(dur_str) ==
    IF dur_str = <<>> THEN NULL
    ELSE LET parts == SplitColon(dur_str, <<>>)
         IN IF Len(parts) \in {2, 3} /\ \A i \in 1..Len(parts) : IsNumeral(parts[i])
            THEN IntOf(parts[1]) * 3600 + IntOf(parts[2]) * 60
                 + (IF Len(parts) = 3 THEN IntOf(parts[3]) ELSE 0)
            ELSE NULL

parse_duration(dur_str) ==
    IF dur_str = <<>> THEN NULL
    ELSE LET parts == SplitColon(dur_str, <<>>)
         IN IF Len(parts) = 3
            THEN IF \A i \in 1..3 : IsNumeral(parts[i])
                 THEN IntOf(parts[1]) * 3600 + IntOf(parts[2]) * 60
                      + IntOf(parts[3])
                 ELSE NULL                                       \* ValueError
            ELSE IF Len(parts) = 2
            THEN IF \A i \in 1..2 : IsNumeral(parts[i])
                 THEN IntOf(parts[1]) * 60 + IntOf(parts[2])
                 ELSE NULL
            ELSE NULL

\* pd.to_datetime(x, errors="coerce")
CoerceDate(x) == IF x = BadDate THEN NaT ELSE x

\* row.get(col): None when the table has no such column
Get(t, row, col, default) ==
    IF ColIndex(t, col) = 0 THEN default ELSE row[ColIndex(t, col)]

WorkoutKey(w) == <<w.start_time, w.type>>

NormalizeWorkouts(t) ==
    IF ColIndex(t, <<"Type">>) = 0 \/ ColIndex(t, <<"Start">>) = 0
    THEN [ok |-> FALSE, recs |-> <<>>]
    ELSE LET records == [i \in 1..Len(t.rows) |->
                 [start_time |-> CoerceDate(Get(t, t.rows[i], <<"Start">>, NaT)),
                  end_time |-> CoerceDate(Get(t, t.rows[i], <<"End">>, NaT)),
                  type |-> t.rows[i][ColIndex(t, <<"Type">>)],
                  duration_seconds |->
                      parse_duration(Get(t, t.rows[i], <<"Duration">>, <<>>))]]
         IN [ok |-> TRUE,
             recs |-> SelectSeq(records,
                         LAMBDA w : w.start_time # NaT /\ w.type # NaS)]

\* ---------------------------------------------------- import_medications.py
MedicationKey(m) == <<m.timestamp, m.medication>>

NormalizeMedications(t) ==
    IF ColIndex(t, <<"Date">>) = 0 THEN [ok |-> FALSE, recs |-> <<>>]
    ELSE LET arch == ColIndex(t, <<"Archived">>)
             df == IF arch = 0 THEN t.rows
                   ELSE SelectSeq(t.rows, LAMBDA row : row[arch] # "Yes")
         IN IF \/ \E i \in 1..Len(df) : df[i][ColIndex(t, <<"Date">>)] = BadDate
               \/ ColIndex(t, <<"Medication">>) = 0       \* raises, KeyError
            THEN [ok |-> FALSE, recs |-> <<>>]
            ELSE LET records == [i \in 1..Len(df) |->
                        [timestamp |-> df[i][ColIndex(t, <<"Date">>)],
                         medication |-> df[i][ColIndex(t, <<"Medication">>)],
                         dosage |-> Get(t, df[i], <<"Dosage">>, NaN)]]
                 IN [ok |-> TRUE,
                     recs |-> SelectSeq(records,
                                LAMBDA m : m.timestamp # NaT /\ m.medication # NaS)]

\* -------------------------------------------------- import_cycletracking.py
value_mapping(value_str) ==
    CASE value_str = "Unspecified" -> 0
      [] value_str = "Light" -> 1
      [] value_str = "Medium" -> 2
      [] value_str = "Heavy" -> 3
      [] value_str = "None" -> 0
      [] value_str = "Yes" -> 1
      [] value_str = "No" -> 0
      [] OTHER -> 0

NormalizeCycleTracking(t) ==
    IF \E col \in {<<"Start">>, <<"Data">>, <<"Value">>} : ColIndex(t, col) = 0
    THEN [ok |-> FALSE, recs |-> <<>>]
    ELSE LET s == ColIndex(t, <<"Start">>)
             d == ColIndex(t, <<"Data">>)
             v == ColIndex(t, <<"Value">>)
             df == SelectSeq(t.rows, LAMBDA row :
                      CoerceDate(row[s]) # NaT /\ row[d] # NaS /\ row[v] # NaS)
         IN IF df = <<>>
            THEN \* pd.DataFrame([]) has no columns: the INSERT ... SELECT
                 \* timestamp, ... FROM df_insert raises
                 [ok |-> FALSE, recs |-> <<>>]
            ELSE
            [ok |-> TRUE,
             recs |-> [i \in 1..Len(df) |->
                 [timestamp |-> df[i][s],
                  metric |-> <<"Cycle Tracking - ", df[i][d]>>,
                  value |-> IF df[i][v] \in DOMAIN Numerals
                            THEN Numerals[df[i][v]]
                            ELSE value_mapping(df[i][v]),
                  unit |-> <<df[i][v]>>,
                  source |-> "cycletracking"]]]

\* ------------------------------------------------------------ sync_libre.py
\* what client.logbook() / client.graph() can return
LibreFeeds == { << [timestamp |-> 1, value |-> 110],
                   [timestamp |-> 2, value |-> 105] >> }

LibreRecords(use_graph, feed) ==
    [i \in 1..Len(feed) |->
        [timestamp |-> feed[i].timestamp,
         metric |-> IF ~use_graph THEN <<"Glucose", " ", "(", "Scan", ")">>
                    ELSE <<"Glucose", " ", "(", "Historic", ")">>,
         value |-> feed[i].value,
         unit |-> <<"mg/dL">>,
         source |-> "libre"]]

\* -------------------------------------------------------------- validate.py
HEART_RATE_MIN == 30
HEART_RATE_MAX == 220
RESTING_HR_DEVIATION_THRESHOLD == 15
ANOMALY_LOOKBACK_DAYS == 30

Min(a, b) == IF a <= b THEN a ELSE b
Abs(x) == IF x < 0 THEN 0 - x ELSE x

\* metric LIKE '%...%': the words occur in the metric, one after the other
Like(metric, words) ==
    \E i \in 1..(Len(metric) - Len(words) + 1) :
        SubSeq(metric, i, i + Len(words) - 1) = words

\* DATE(timestamp): the model counts timestamps, and the clock, in days
DateOf(ts) == ts

\* validate_heart_rate_range: LIMIT 10; one warning for the count, one for
\* each of the first three rows, one for the rest
RangeWarnings(tab) ==
    LET outliers == SelectSeq(tab, LAMBDA r :
                       /\ Like(r.metric, <<"Heart", " ", "Rate">>)
                       /\ ~Like(r.metric, <<"Variability">>)
                       /\ ~Like(r.metric, <<"Recovery">>)
                       /\ r.value < HEART_RATE_MIN \/ r.value > HEART_RATE_MAX)
        n == Min(Len(outliers), 10)
    IN IF n = 0 THEN 0 ELSE 1 + Min(n, 3) + (IF n > 3 THEN 1 ELSE 0)

\* validate_no_future_timestamps: WHERE timestamp > now
FutureWarnings(tab, now) ==
    IF \E i \in 1..Len(tab) : tab[i].timestamp > now THEN 1 ELSE 0

SetMin(S) == CHOOSE x \in S : \A y \in S : x <= y
SetMax(S) == CHOOSE x \in S : \A y \in S : x >= y

\* validate_date_coverage: the days between the first and the last day with
\* data that have none
MissingDays(tab) ==
    LET days == {DateOf(tab[i].timestamp) : i \in 1..Len(tab)}
        expected_days == SetMax(days) - SetMin(days) + 1
    IN expected_days - Cardinality(days)

\* the query that names the missing days selects DATE(MIN(timestamp)) next
\* to the column n with no GROUP BY, and hands aggregates to generate_series
\* in its FROM clause: the binder rejects it, and conn.execute raises.  It is
\* executed when missing_days > 0.
CoverageRaises(tab) == tab # <<>> /\ MissingDays(tab) > 0

\* the warnings validate_date_coverage has added when it returns or raises
CoverageWarnings(tab) ==
    IF tab = <<>> THEN 1                           \* No data found in database
    ELSE IF MissingDays(tab) > 0 THEN 1            \* Missing data for N day(s)
    ELSE 0

\* the sum and the product of f[x] over the x of S
RECURSIVE SumOver(_, _)
SumOver(S, f) ==
    IF S = {} THEN 0
    ELSE LET x == CHOOSE y \in S : TRUE IN f[x] + SumOver(S \ {x}, f)
RECURSIVE ProductOver(_, _)
ProductOver(S, f) ==
    IF S = {} THEN 1
    ELSE LET x == CHOOSE y \in S : TRUE IN f[x] * ProductOver(S \ {x}, f)

\* detect_resting_hr_anomalies: the days whose average differs by more than
\* the threshold from the average of the (up to) seven days with data before
\* them, among the days of the lookback window; LIMIT 5.  The averages are
\* compared as fractions: AVG(value) of day d is total(d) / count(d).
RestingAnomalies(tab, now) ==
    LET resting == SelectSeq(tab, LAMBDA r :
                      r.metric = <<"Resting", " ", "Heart", " ", "Rate">>)
        days == {DateOf(resting[i].timestamp) : i \in 1..Len(resting)}
        rows(d) == {i \in 1..Len(resting) : DateOf(resting[i].timestamp) = d}
        total == [d \in days |->
                    SumOver(rows(d), [i \in rows(d) |-> resting[i].value])]
        count == [d \in days |-> Cardinality(rows(d))]
        before(d) == {p \in days : p < d}
        \* ROWS BETWEEN 7 PRECEDING AND 1 PRECEDING
        window(d) == {p \in before(d) :
                        Cardinality({q \in before(d) : q > p}) < 7}
        L(d) == ProductOver(window(d), count)
        \* the sum of the window's daily averages, times L(d)
        rolling(d) == SumOver(window(d),
                         [p \in window(d) |-> total[p] * (L(d) \div count[p])])
        k(d) == Cardinality(window(d))
    IN {d \in days :
          /\ window(d) # {}                        \* rolling_avg_7d IS NOT NULL
          /\ Abs(total[d] * L(d) * k(d) - count[d] * rolling(d))
                > RESTING_HR_DEVIATION_THRESHOLD * count[d] * L(d) * k(d)
          /\ d >= now - ANOMALY_LOOKBACK_DAYS}

\* ORDER BY date DESC LIMIT 5
ReportedAnomalies(tab, now) ==
    LET found == RestingAnomalies(tab, now)
    IN {d \in found : Cardinality({e \in found : e > d}) < 5}

RestingWarnings(tab, now) ==
    LET n == Min(Cardinality(RestingAnomalies(tab, now)), 5)
    IN IF n = 0 THEN 0 ELSE 1 + n

\* the warnings the k-th check of run_validation adds to the report
CheckWarnings(k, tab, now) ==
    CASE k = 1 -> RangeWarnings(tab)
      [] k = 2 -> FutureWarnings(tab, now)
      [] k = 3 -> CoverageWarnings(tab)
      [] k = 4 -> RestingWarnings(tab, now)

\* len(report.warnings) once the first n checks have returned
RECURSIVE WarningsAfter(_, _, _)
WarningsAfter(n, tab, now) ==
    IF n = 0 THEN 0
    ELSE WarningsAfter(n - 1, tab, now) + CheckWarnings(n, tab, now)

\* ------------------------------------------------------------------- state
VARIABLES
    files,          \* the source folder: file name -> bytes, Absent if none
    imported_dir,   \* the imported/ subfolder, likewise
    hash_column,    \* the imports table has the file_hash column
    readings,       \* the tables, rows in insertion order
    workouts,
    medications,
    imports,        \* the ledger
    clock,          \* processes started so far
    exports,        \* files written by the exporter so far
    pc,             \* where the running process is, "exited" once it has
                    \* ended and its status is to be taken, "idle" if none
    run,            \* the frame of main() / run_daily_import()
    imp,            \* the frame of the importer being executed
    exit_code,      \* exit status of the process that has ended, else NULL
    hist            \* history: the last completed batch run

vars == <<files, imported_dir, hash_column, readings, workouts, medications,
          imports, clock, exports, pc, run, imp, exit_code, hist>>

store == <<readings, workouts, medications>>

\* -------------------------------------------------------------- the tables
KeyOf(tab, r) ==
    CASE tab = "readings" -> ReadingKey(r)
      [] tab = "workouts" -> WorkoutKey(r)
      [] tab = "medications" -> MedicationKey(r)

HasKey(tab, table, k) == \E i \in 1..Len(table) : KeyOf(tab, table[i]) = k

\* plain INSERT with no conflict clause and no constraint
InsertAll(tab, table, recs) == table \o recs

\* INSERT OR REPLACE: the row that holds the key takes the new record
RECURSIVE InsertOrReplace(_, _, _)
InsertOrReplace(tab, table, recs) ==
    IF recs = <<>> THEN table
    ELSE IF HasKey(tab, table, KeyOf(tab, Head(recs)))
         THEN InsertOrReplace(tab,
                  [i \in 1..Len(table) |->
                      IF KeyOf(tab, table[i]) = KeyOf(tab, Head(recs))
                      THEN Head(recs) ELSE table[i]],
                  Tail(recs))
         ELSE InsertOrReplace(tab, Append(table, Head(recs)), Tail(recs))

\* DELETE FROM the table, then load the file
TruncateAndLoad(tab, table, recs) == InsertOrReplace(tab, <<>>, recs)

\* the statement is never executed
InsertNothing(tab, table, recs) == table

\* INSERT OR IGNORE ... SELECT / ON CONFLICT DO NOTHING: a record whose key
\* is already in the table (or earlier in the same statement) is dropped
RECURSIVE InsertOrIgnore(_, _, _)
InsertOrIgnore(tab, table, recs) ==
    IF recs = <<>> THEN table
    ELSE IF HasKey(tab, table, KeyOf(tab, Head(recs)))
         THEN InsertOrIgnore(tab, table, Tail(recs))
         ELSE InsertOrIgnore(tab, Append(table, Head(recs)), Tail(recs))

\* the NOT NULL columns of init_db.py: a NULL there fails the whole statement
ViolatesNotNull(tab, recs) ==
    \E i \in 1..Len(recs) :
        CASE tab = "readings" -> recs[i].timestamp = NaT
          [] tab = "workouts" -> recs[i].start_time = NaT
          [] tab = "medications" -> recs[i].timestamp = NaT

LedgerNames == {imports[i].filename : i \in 1..Len(imports)}
LedgerIndex(f) == CHOOSE i \in 1..Len(imports) : imports[i].filename = f
LedgerRow(f) == imports[LedgerIndex(f)]

\* get_imported_files: {filename: file_hash}
get_imported_files == [f \in LedgerNames |-> LedgerRow(f).file_hash]

\* get_csv_files: sorted(folder.glob("*.csv"))
get_csv_files == SelectSeq(SortedNames, LAMBDA f : files[f] # Absent)

\* --------------------------------------------------------- daily_import.py
\* a record without a hash counts as up to date
ClassifyNullAsUnchanged(imported, f, file_hash) ==
    IF f \notin DOMAIN imported THEN "new"
    ELSE IF imported[f] = NULL THEN "unchanged"
    ELSE IF imported[f] # file_hash THEN "hash_changed"
    ELSE "unchanged"

\* a matching hash counts as a change
ClassifyAlwaysChanged(imported, f, file_hash) ==
    IF f \notin DOMAIN imported THEN "new"
    ELSE IF imported[f] = NULL THEN "no_hash"
    ELSE "hash_changed"

\* the if/elif chain of run_daily_import, lines 114-125
Classify(imported, f, file_hash) ==
    IF f \notin DOMAIN imported THEN "new"
    ELSE IF imported[f] = NULL THEN "no_hash"
    ELSE IF imported[f] # file_hash THEN "hash_changed"
    ELSE "unchanged"

\* import_file without its CycleTracking branch
RouteWithoutCycleTracking(f) ==
    IF StartsWith(f, "Medications-") THEN "medications"
    ELSE IF StartsWith(f, "Workouts-") THEN "workouts"
    ELSE IF StartsWith(f, "HealthMetrics-") THEN "healthkit"
    ELSE IF StartsWith(f, "HaishanYe_glucose_") THEN "skip"
    ELSE "healthkit"

\* import_file: the importer a file name is routed to
Route(f) ==
    IF StartsWith(f, "Medications-") THEN "medications"
    ELSE IF StartsWith(f, "Workouts-") THEN "workouts"
    ELSE IF StartsWith(f, "CycleTracking-") THEN "cycletracking"
    ELSE IF StartsWith(f, "HealthMetrics-") THEN "healthkit"
    ELSE IF StartsWith(f, "HaishanYe_glucose_") THEN "skip"
    ELSE "healthkit"

\* the importers whose signature is (csv_path, file_hash, is_reimport)
TakesHash(kind) == kind \in {"healthkit", "workouts"}

Normalize(kind, t) ==
    CASE kind = "healthkit" -> NormalizeHealthKit(t, "healthkit")
      [] kind = "workouts" -> NormalizeWorkouts(t)
      [] kind = "medications" -> NormalizeMedications(t)
      [] kind = "cycletracking" -> NormalizeCycleTracking(t)

TableOf(kind) ==
    CASE kind = "healthkit" -> "readings"
      [] kind = "workouts" -> "workouts"
      [] kind = "medications" -> "medications"
      [] kind = "cycletracking" -> "readings"

Table(tab) ==
    CASE tab = "readings" -> readings
      [] tab = "workouts" -> workouts
      [] tab = "medications" -> medications

Counts == <<Len(readings), Len(workouts), Len(medications)>>

NoStore == << <<>>, <<>>, <<>> >>
NoStats == [total |-> 0, new |-> 0, changed |-> 0, skipped |-> 0,
            imported |-> 0, errors |-> 0, rows_added |-> 0]
NoOutcome == [f \in Names |-> "none"]
NoRun == [job |-> "none", dry_run |-> FALSE, csv_files |-> <<>>, imported |-> <<>>,
          new_files |-> <<>>, changed_files |-> <<>>, unchanged_count |-> 0,
          next |-> 1, stats |-> NoStats, outcome |-> NoOutcome,
          route |-> NoOutcome,
          after_clean |-> FALSE, clean_counts |-> <<0, 0, 0>>,
          after_crash |-> FALSE, torn |-> FALSE, expected |-> NoStore,
          checks_run |-> 0, check_failed |-> 0, warnings |-> 0, moved |-> {}]
NoImp == [caller |-> "none", kind |-> "none", f |-> <<>>, file_hash |-> NULL,
          is_reimport |-> FALSE, existing |-> FALSE, rows_added |-> 0,
          state |-> "none", result |-> 0, before |-> <<0, 0, 0>>,
          ledger_before |-> <<>>]

\* history kept for the properties: whether the last process was a batch run
\* that completed (clean) and the row counts it left; whether the last
\* process was a batch run that was killed (crashed), whether the kill fell
\* between a merge and its ledger write (torn), and the tables that run
\* would have left had it not been killed (expected)
NoHist == [clean |-> FALSE, counts |-> <<0, 0, 0>>, crashed |-> FALSE,
           torn |-> FALSE, expected |-> NoStore]
\* another process or the exporter has acted since
Disturbed(h) == NoHist

\* the two import loops of run_daily_import run to their end: the tables
\* they leave.  A file that fails leaves the tables alone; the call of an
\* importer without a hash argument ends the loops.
RECURSIVE Uninterrupted(_, _)
Uninterrupted(items, st) ==
    IF items = <<>> THEN st
    ELSE LET kind == Route(Head(items).f)
         IN IF kind = "skip" THEN Uninterrupted(Tail(items), st)
            ELSE IF ~TakesHash(kind) THEN st
            ELSE LET n == Normalize(kind, ReadCsv(files[Head(items).f]))
                     tab == TableOf(kind)
                     k == CASE tab = "readings" -> 1 [] tab = "workouts" -> 2
                            [] tab = "medications" -> 3
                 IN IF ~n.ok \/ ViolatesNotNull(tab, n.recs)
                    THEN Uninterrupted(Tail(items), st)
                    ELSE Uninterrupted(Tail(items),
                            [st EXCEPT ![k] = InsertOrIgnore(tab, st[k], n.recs)])

Init ==
    /\ files = [f \in Names |-> Absent]
    /\ imported_dir = [f \in Names |-> Absent]
    /\ hash_column = FALSE              \* init_db.py creates imports without it
    /\ readings = <<>>
    /\ workouts = <<>>
    /\ medications = <<>>
    /\ imports = <<>>
    /\ clock = 0
    /\ exports = 0
    /\ pc = "idle"
    /\ run = NoRun
    /\ imp = NoImp
    /\ exit_code = NULL
    /\ hist = NoHist

\* ---------------------------------------------------------- the environment
\* migrate_add_file_hash.py: ALTER TABLE imports ADD COLUMN file_hash
Migrate ==
    /\ pc = "idle"
    /\ ~hash_column
    /\ hash_column' = TRUE
    /\ UNCHANGED <<files, imported_dir, readings, workouts, medications,
                   imports, clock, exports, pc, run, imp, exit_code, hist>>

\* the exporter writes (or rewrites) a file in the source folder
Export(f, b) ==
    /\ pc = "idle"
    /\ exports < MaxExports
    /\ b \in Exports(f)
    /\ files[f] # b
    /\ files' = [files EXCEPT ![f] = b]
    /\ exports' = exports + 1
    /\ hist' = Disturbed(hist)
    /\ UNCHANGED <<imported_dir, hash_column, readings, workouts, medications,
                   imports, clock, pc, run, imp, exit_code>>

\* sync_libre: one INSERT ... ON CONFLICT DO NOTHING per reading
SyncLibre(use_graph, feed) ==
    /\ pc = "idle"
    /\ clock < MaxClock
    /\ clock' = clock + 1
    /\ readings' = InsertOrIgnore("readings", readings,
                                  LibreRecords(use_graph, feed))
    /\ pc' = "exited"
    /\ exit_code' = 0
    /\ hist' = Disturbed(hist)
    /\ UNCHANGED <<files, imported_dir, hash_column, workouts, medications,
                   imports, exports, run, imp>>

\* ------------------------------------------------------------ the importers
\* import_csv, import_workouts_csv, import_medications_csv and
\* import_cycletracking_csv from their first line to the INSERT OR IGNORE into
\* the fact table.  Every statement is committed on its own (no transaction).
\* every importer selects import_id alone
ExistingQueryNeverRaises(kind) == FALSE

\* "SELECT import_id, file_hash FROM imports WHERE filename = ?" names the
\* file_hash column, which raises when the ledger has no such column;
\* the importers without a hash argument select import_id alone
ExistingQueryRaises(kind) == TakesHash(kind) /\ ~hash_column

\* the importer reports the number of records it made of the file
RecordsInFile(table_before, table_after, recs) == Len(recs)

\* rows_added = rows_after - rows_before, the two SELECT COUNT(*) around the
\* INSERT OR IGNORE
RowsAdded(table_before, table_after, recs) == Len(table_after) - Len(table_before)

Begin(caller, kind, f, file_hash, is_reimport) ==
    LET existing == f \in LedgerNames
        frame == [caller |-> caller, kind |-> kind, f |-> f,
                  file_hash |-> file_hash, is_reimport |-> is_reimport,
                  existing |-> existing, rows_added |-> 0, state |-> "returned",
                  result |-> -1, before |-> Counts, ledger_before |-> imports]
        tab == TableOf(kind)
    IN /\ pc' = "importer"
       /\ IF files[f] = Absent
          THEN /\ imp' = frame                          \* File not found
               /\ UNCHANGED store
          ELSE IF ExistingQueryRaises(kind)
          THEN /\ imp' = frame                          \* except: return -1
               /\ UNCHANGED store
          ELSE IF existing /\ ~is_reimport
          THEN /\ imp' = [frame EXCEPT !.result = 0]    \* Already imported
               /\ UNCHANGED store
          ELSE LET n == Normalize(kind, ReadCsv(files[f]))
               IN IF ~n.ok \/ ViolatesNotNull(tab, n.recs)
                  THEN /\ imp' = frame
                       /\ UNCHANGED store
                  ELSE LET after == InsertOrIgnore(tab, Table(tab), n.recs)
                       IN /\ imp' = [frame EXCEPT
                                       !.state = "merged",
                                       !.rows_added =
                                           RowsAdded(Table(tab), after, n.recs)]
                          /\ readings' = IF tab = "readings" THEN after ELSE readings
                          /\ workouts' = IF tab = "workouts" THEN after ELSE workouts
                          /\ medications' =
                                IF tab = "medications" THEN after ELSE medications

\* the INSERT names no file_hash column
LedgerRecordWithoutHash(frame, now) ==
    [filename |-> frame.f, imported_at |-> now, rows_added |-> frame.rows_added,
     source |-> frame.kind, file_hash |-> NULL]

\* the ledger row an importer writes
LedgerRecord(frame, now) ==
    [filename |-> frame.f, imported_at |-> now, rows_added |-> frame.rows_added,
     source |-> frame.kind,
     file_hash |-> IF TakesHash(frame.kind) THEN frame.file_hash ELSE NULL]

\* the importer has no UPDATE branch
AlwaysInserts(frame) == FALSE

\* "if is_reimport and existing": the importers with a hash argument update
\* the record they found; the others only ever insert
UpdatesRecord(frame) ==
    TakesHash(frame.kind) /\ frame.is_reimport /\ frame.existing

\* "Log import": UPDATE imports ... WHERE filename = ?, or INSERT INTO imports
ImportRecord ==
    /\ pc = "importer"
    /\ imp.state = "merged"
    /\ IF TakesHash(imp.kind) /\ ~hash_column
       THEN \* no such column: the statement raises, except: return -1
            /\ imp' = [imp EXCEPT !.state = "returned", !.result = -1]
            /\ UNCHANGED imports
       ELSE IF UpdatesRecord(imp)
       THEN /\ imports' = [imports EXCEPT ![LedgerIndex(imp.f)] =
                              [@ EXCEPT !.imported_at = clock,
                                        !.rows_added = imp.rows_added,
                                        !.file_hash = imp.file_hash]]
            /\ imp' = [imp EXCEPT !.state = "returned", !.result = imp.rows_added]
       ELSE IF imp.f \in LedgerNames
       THEN \* UNIQUE(filename) violated: the statement raises
            /\ imp' = [imp EXCEPT !.state = "returned", !.result = -1]
            /\ UNCHANGED imports
       ELSE /\ imports' = Append(imports, LedgerRecord(imp, clock))
            /\ imp' = [imp EXCEPT !.state = "returned", !.result = imp.rows_added]
    /\ UNCHANGED <<files, imported_dir, hash_column, readings, workouts,
                   medications, clock, exports, pc, run, exit_code, hist>>

\* python src/import_*.py <csv_file>: the importer run from its own main()
CliImport(f) ==
    /\ pc = "idle"
    /\ clock < MaxClock
    /\ files[f] # Absent
    /\ Route(f) # "skip"
    /\ clock' = clock + 1
    /\ Begin("cli", Route(f), f, NULL, FALSE)
    /\ hist' = Disturbed(hist)
    /\ UNCHANGED <<files, imported_dir, hash_column, imports, exports, run,
                   exit_code>>

\* ---------------------------------------------------------- the batch job
\* the files of run_daily_import's two loops, new files first
Items(r) ==
    [i \in 1..Len(r.new_files) |->
        [f |-> r.new_files[i][1], file_hash |-> r.new_files[i][2],
         is_reimport |-> FALSE]]
    \o
    [i \in 1..Len(r.changed_files) |->
        [f |-> r.changed_files[i][1], file_hash |-> r.changed_files[i][2],
         is_reimport |-> TRUE]]

\* the loop ends after its first file
AfterItemStopsEarly(r) == "returned"

AfterItem(r) == IF r.next + 1 > Len(Items(r)) THEN "returned" ELSE "loop"

\* main() up to the end of the categorisation loop of run_daily_import
StartRun(dry_run) ==
    /\ pc = "idle"
    /\ clock < MaxClock
    /\ clock' = clock + 1
    /\ LET csv_files == get_csv_files
       IN IF csv_files = <<>>
          THEN /\ run' = [NoRun EXCEPT !.job = "batch",
                                       !.dry_run = dry_run,
                                       !.after_clean = hist.clean,
                                       !.clean_counts = hist.counts]
               /\ pc' = "returned"
          ELSE IF ~hash_column
          THEN \* get_imported_files: SELECT filename, file_hash raises
               /\ run' = [NoRun EXCEPT !.job = "batch", !.dry_run = dry_run,
                                       !.csv_files = csv_files]
               /\ pc' = "raised"
          ELSE LET imported == get_imported_files
                   class(f) == Classify(imported, f, calculate_file_hash(files[f]))
                   news == SelectSeq(csv_files, LAMBDA f : class(f) = "new")
                   chgs == SelectSeq(csv_files,
                              LAMBDA f : class(f) \in {"no_hash", "hash_changed"})
                   new_files == [i \in 1..Len(news) |->
                                   <<news[i], calculate_file_hash(files[news[i]])>>]
                   changed_files == [i \in 1..Len(chgs) |->
                                   <<chgs[i], calculate_file_hash(files[chgs[i]]),
                                     class(chgs[i])>>]
                   unchanged_count ==
                       Cardinality({f \in Range(csv_files) : class(f) = "unchanged"})
               IN /\ run' = [NoRun EXCEPT
                       !.job = "batch",
                       !.dry_run = dry_run,
                       !.csv_files = csv_files,
                       !.imported = imported,
                       !.new_files = new_files,
                       !.changed_files = changed_files,
                       !.unchanged_count = unchanged_count,
                       !.stats = [NoStats EXCEPT !.total = Len(csv_files),
                                                 !.new = Len(new_files),
                                                 !.changed = Len(changed_files),
                                                 !.skipped = unchanged_count],
                       !.after_clean = hist.clean,
                       !.clean_counts = hist.counts,
                       !.after_crash = hist.crashed,
                       !.torn = hist.torn,
                       !.expected =
                           IF hist.crashed THEN hist.expected
                           ELSE Uninterrupted(
                                  Items([new_files |-> new_files,
                                         changed_files |-> changed_files]),
                                  store)]
                  /\ pc' = IF (new_files = <<>> /\ changed_files = <<>>) \/ dry_run
                           THEN "returned" ELSE "loop"
    /\ hist' = IF dry_run THEN hist ELSE Disturbed(hist)
    /\ UNCHANGED <<files, imported_dir, hash_column, readings, workouts,
                   medications, imports, exports, imp, exit_code>>

\* one turn of an import loop: import_file routes the file by its prefix
ImportFile ==
    /\ pc = "loop"
    /\ LET item == Items(run)[run.next]
           kind == Route(item.f)
       IN IF kind = "skip"
          THEN \* glucose file: return 0, counted as imported
               /\ run' = [run EXCEPT !.next = @ + 1,
                                     !.stats.imported = @ + 1,
                                     !.outcome[item.f] = "skipped",
                                     !.route[item.f] = kind]
               /\ pc' = AfterItem(run)
               /\ UNCHANGED <<store, imp>>
          ELSE IF ~TakesHash(kind)
          THEN \* import_medications_csv(csv_path) and
               \* import_cycletracking_csv(csv_path) are called with three
               \* arguments: TypeError, which nothing catches
               /\ run' = [run EXCEPT !.outcome[item.f] = "raised",
                                     !.route[item.f] = kind]
               /\ pc' = "raised"
               /\ UNCHANGED <<store, imp>>
          ELSE /\ Begin("run", kind, item.f, item.file_hash, item.is_reimport)
               /\ run' = [run EXCEPT !.route[item.f] = kind]
    /\ UNCHANGED <<files, imported_dir, hash_column, imports, clock, exports,
                   exit_code, hist>>

\* the importer returns: to the import loop, or to its own main()
ImportReturn ==
    /\ pc = "importer"
    /\ imp.state = "returned"
    /\ imp' = NoImp
    /\ IF imp.caller = "run"
       THEN /\ run' = [run EXCEPT
                  !.next = @ + 1,
                  !.stats.errors = IF imp.result < 0 THEN @ + 1 ELSE @,
                  !.stats.imported = IF imp.result < 0 THEN @ ELSE @ + 1,
                  !.stats.rows_added = IF imp.result < 0 THEN @ ELSE @ + imp.result,
                  !.outcome[imp.f] = IF imp.result < 0 THEN "failed" ELSE "ok"]
            /\ pc' = AfterItem(run)
            /\ UNCHANGED exit_code
       ELSE /\ pc' = "exited"
            /\ exit_code' = IF imp.result >= 0 THEN 0 ELSE 1
            /\ UNCHANGED run
    /\ UNCHANGED <<files, imported_dir, hash_column, readings, workouts,
                   medications, imports, clock, exports, hist>>

\* print_summary, then run_validation unless the run is a dry run or found
\* no CSV file.  run_validation executes its four checks in a try without
\* an except clause: when check number `failing` raises (0: none does), the
\* checks after it are not executed and the exception leaves main.
Validate(failing) ==
    /\ pc = "returned"
    /\ IF run.dry_run \/ ~(run.stats.imported > 0 \/ run.stats.total > 0)
       THEN /\ failing = 0
            /\ pc' = "validated"
            /\ UNCHANGED run
       ELSE IF failing = 0
       THEN /\ ~CoverageRaises(readings)
            /\ pc' = "validated"
            /\ run' = [run EXCEPT !.checks_run = 4,
                                  !.warnings = WarningsAfter(4, readings, clock)]
       ELSE /\ failing = 4 => ~CoverageRaises(readings)
            /\ pc' = "raised"
            /\ run' = [run EXCEPT
                         !.checks_run = failing - 1,
                         !.check_failed = failing,
                         !.warnings = WarningsAfter(failing - 1, readings, clock)]
    /\ hist' = IF run.dry_run \/ failing # 0 THEN hist
               ELSE [NoHist EXCEPT !.clean = TRUE, !.counts = Counts]
    /\ UNCHANGED <<files, imported_dir, hash_column, readings, workouts,
                   medications, imports, clock, exports, imp, exit_code>>

\* a report with warnings makes the status 1, as validate.py's own main does
ExitStatusCountsWarnings(r) ==
    IF r.stats.errors > 0 \/ r.warnings > 0 THEN 1 ELSE 0

\* main: sys.exit(1 if stats['errors'] > 0 else 0)
ExitStatus(r) == IF r.stats.errors > 0 THEN 1 ELSE 0

\* the files are moved whatever the run's errors
MoveAlways(stats) == TRUE

\* main: "if stats['errors'] == 0: move_imported_files(...)"
MoveAllowed(stats) == stats.errors = 0

\* move_imported_files moves every CSV of the source folder
every_csv_file == {f \in Names : files[f] # Absent}

\* move_imported_files: the CSVs the ledger knows go to imported/
files_to_move == {f \in Names : files[f] # Absent /\ f \in LedgerNames}

\* move_imported_files moves the files of a dry run as well
MovesFilesInDryRun(r) == MoveAllowed(r.stats)

\* move_imported_files is called, and it does not stop at "if dry_run:"
MovesFiles(r) == MoveAllowed(r.stats) /\ ~r.dry_run

MoveAndExit ==
    /\ pc = "validated"
    /\ IF MoveAllowed(run.stats) /\ ~hash_column
       THEN \* get_imported_files raises in move_imported_files
            /\ pc' = "raised"
            /\ UNCHANGED <<files, imported_dir, run, exit_code>>
       ELSE /\ pc' = "exited"
            /\ exit_code' = ExitStatus(run)
            /\ IF MovesFiles(run)
               THEN /\ files' = [f \in Names |->
                                   IF f \in files_to_move THEN Absent ELSE files[f]]
                    /\ imported_dir' = [f \in Names |->
                                   IF f \in files_to_move THEN files[f]
                                   ELSE imported_dir[f]]
                    /\ run' = [run EXCEPT !.moved = files_to_move]
               ELSE UNCHANGED <<files, imported_dir, run>>
    /\ UNCHANGED <<hash_column, readings, workouts, medications, imports,
                   clock, exports, imp, hist>>

\* an uncaught exception ends the process with a traceback and status 1
Traceback ==
    /\ pc = "raised"
    /\ pc' = "exited"
    /\ imp' = NoImp
    /\ exit_code' = 1
    /\ UNCHANGED <<files, imported_dir, hash_column, readings, workouts,
                   medications, imports, clock, exports, run, hist>>

\* the caller (cron, the shell) takes the status of the process that ended
Wait ==
    /\ pc = "exited"
    /\ pc' = "idle"
    /\ run' = NoRun
    /\ exit_code' = NULL
    /\ UNCHANGED <<files, imported_dir, hash_column, readings, workouts,
                   medications, imports, clock, exports, imp, hist>>

\* the running process is killed
Crash ==
    /\ pc \notin {"idle", "exited"}
    /\ pc' = "idle"
    /\ run' = NoRun
    /\ imp' = NoImp
    /\ exit_code' = NULL
    /\ hist' = IF run.stats.total > 0 /\ ~run.dry_run
               THEN [hist EXCEPT
                       !.clean = FALSE,
                       !.crashed = TRUE,
                       !.torn = run.torn \/ (pc = "importer" /\ imp.state = "merged"),
                       !.expected = run.expected]
               ELSE IF run.dry_run THEN hist
               ELSE Disturbed(hist)
    /\ UNCHANGED <<files, imported_dir, hash_column, readings, workouts,
                   medications, imports, clock, exports>>

Next ==
    \/ Migrate
    \/ \E f \in Names, b \in Bytes : Export(f, b)
    \/ \E use_graph \in BOOLEAN, feed \in LibreFeeds : SyncLibre(use_graph, feed)
    \/ \E f \in Names : CliImport(f)
    \/ \E dry_run \in BOOLEAN : StartRun(dry_run)
    \/ ImportFile
    \/ ImportRecord
    \/ ImportReturn
    \/ \E failing \in 0..4 : Validate(failing)
    \/ MoveAndExit
    \/ Traceback
    \/ Wait
    \/ Crash

Spec == Init /\ [][Next]_vars

\* ------------------------------------- the exporter at work during a run
\* the exporter replaces the bytes of a file of the source folder after
\* run_daily_import has hashed and classified the files and before the
\* importer of the next file opens it
Rewrite(f, b) ==
    /\ pc = "loop"
    /\ exports < MaxExports
    /\ files[f] # Absent
    /\ b \in Exports(f)
    /\ files[f] # b
    /\ files' = [files EXCEPT ![f] = b]
    /\ exports' = exports + 1
    /\ hist' = Disturbed(hist)
    /\ UNCHANGED <<imported_dir, hash_column, readings, workouts, medications,
                   imports, clock, pc, run, imp, exit_code>>

RewriteNext ==
    \/ Next
    \/ \E f \in Names, b \in Bytes : Rewrite(f, b)

RewriteSpec == Init /\ [][RewriteNext]_vars

\* ------------------------------------------- the functions called on their own
\* A function of the importers or a check of the validator is called once on
\* an input: imp is the frame of the call (the function, its argument, its
\* result), readings is the database a check runs on and clock the day of
\* datetime.now(); pc goes from "call" to "done".

\* the texts of at most n tokens over the alphabet A; a word is one token,
\* so no word follows a word
Separators == {" ", "(", ")", ":"}
TextsOver(A, n) ==
    {t \in UNION {[1..k -> A] : k \in 0..n} :
        \A i \in 1..(Len(t) - 1) : t[i] \in Separators \/ t[i + 1] \in Separators}

\* column headers
Headers ==
    TextsOver({"Rate", " ", "(", ")"}, MaxLen)
    \cup {<<"Active", " ", "Energy", " ", "(", "kcal", ")">>,
          <<"Body", " ", "Mass", " ", "Index", " ", "(", "count", ")">>,
          <<"Resting", " ", "Heart", " ", "Rate">>}

\* Duration cells
Durations ==
    TextsOver({"05", "30", ":", " ", "garbage"}, MaxLen)
    \cup {<<"01", ":", "02", ":", "03">>, <<"05", ":", "30">>, <<"garbage">>,
          <<"01", ":", "02", ":", "03", ":", "05">>}

\* Value cells of a CycleTracking file, as the file spells them
ValueTexts == {"Unspecified", "None", "No", "Light", "Yes", "Medium", "Heavy",
               "Spotting", "2", ""}

\* the texts pd.read_csv reads as NaN: "None" is among them from pandas 2.0 on
NaTexts(none_is_na) == {"", "NaN"} \cup (IF none_is_na THEN {"None"} ELSE {})

\* pd.read_csv on a text cell
ReadCell(text, none_is_na) == IF text \in NaTexts(none_is_na) THEN NaS ELSE text

\* one reading a day: the database with value[d] on each day d of its domain
DayReadings(metric, days, value) ==
    LET RECURSIVE Rows(_)
        Rows(d) == IF d > SetMax(days \cup {0}) THEN <<>>
                   ELSE (IF d \in days
                         THEN << [timestamp |-> d, metric |-> metric,
                                  value |-> value[d], unit |-> <<"bpm">>,
                                  source |-> "healthkit"] >>
                         ELSE <<>>) \o Rows(d + 1)
    IN Rows(1)

RestingHR == <<"Resting", " ", "Heart", " ", "Rate">>

\* the databases validate_date_coverage is called on: readings on any days
\* up to MaxDay + 2
CoverageDatabases ==
    {DayReadings(<<"Steps">>, days, [d \in days |-> 900]) :
        days \in SUBSET (1..(MaxDay + 2))}

\* the databases detect_resting_hr_anomalies is called on: on each day up to
\* MaxDay - 1 no reading or a resting heart rate of 60, 75 or 100; 37 days at
\* 60 and a day at 80; 37 days at 60, the eighth missing, and a day at 80;
\* nine days that alternate between 60 and 100; two readings on one day
RestingDatabases ==
    {DayReadings(RestingHR, DOMAIN v, v) :
        v \in UNION {[days -> {60, 75, 100}] : days \in SUBSET (1..(MaxDay - 1))}}
    \cup {DayReadings(RestingHR, 1..38, [d \in 1..38 |-> IF d = 38 THEN 80 ELSE 60]),
          DayReadings(RestingHR, (1..38) \ {8},
                      [d \in 1..38 |-> IF d = 38 THEN 80 ELSE 60]),
          DayReadings(RestingHR, 1..9, [d \in 1..9 |-> IF d % 2 = 0 THEN 100 ELSE 60]),
          DayReadings(RestingHR, 1..2, [d \in 1..2 |-> 60])
            \o << [timestamp |-> 2, metric |-> RestingHR, value |-> 100,
                   unit |-> <<"bpm">>, source |-> "libre"] >>}

\* the days on which the check is run
Nows == {MaxDay - 1, 38, 68, 69}

Calls ==
    {[fn |-> "parse_metric_column", arg |-> c, result |-> <<>>] : c \in Headers}
    \cup {[fn |-> "parse_duration", arg |-> d, result |-> <<>>] : d \in Durations}
    \cup {[fn |-> "import_cycletracking_csv",
           arg |-> [Value |-> v, none_is_na |-> na], result |-> <<>>] :
             v \in ValueTexts, na \in BOOLEAN}

UnitInit ==
    /\ files = [f \in Names |-> Absent]
    /\ imported_dir = [f \in Names |-> Absent]
    /\ hash_column = TRUE
    /\ workouts = <<>>
    /\ medications = <<>>
    /\ imports = <<>>
    /\ exports = 0
    /\ pc = "call"
    /\ run = NoRun
    /\ exit_code = NULL
    /\ hist = NoHist
    /\ \/ /\ imp \in Calls
          /\ readings = <<>>
          /\ clock = 0
       \/ /\ imp = [fn |-> "validate_date_coverage", arg |-> <<>>, result |-> <<>>]
          /\ readings \in CoverageDatabases
          /\ clock = MaxDay
       \/ /\ imp = [fn |-> "detect_resting_hr_anomalies", arg |-> <<>>,
                    result |-> <<>>]
          /\ readings \in RestingDatabases
          /\ clock \in Nows

Returns(fn, result) ==
    /\ pc = "call"
    /\ imp.fn = fn
    /\ pc' = "done"
    /\ imp' = [imp EXCEPT !.result = result]
    /\ UNCHANGED <<files, imported_dir, hash_column, readings, workouts,
                   medications, imports, clock, exports, run, exit_code, hist>>

Call_parse_metric_column ==
    Returns("parse_metric_column", parse_metric_column(imp.arg))

\* import_workouts_csv on a file of one row with the Duration cell
Call_parse_duration ==
    Returns("parse_duration",
        NormalizeWorkouts(
            [header |-> << <<"Start">>, <<"End">>, <<"Type">>, <<"Duration">> >>,
             rows |-> << <<1, 2, "Run", imp.arg>> >>]))

\* import_cycletracking_csv on a file of one row with the Value cell
Call_import_cycletracking_csv ==
    Returns("import_cycletracking_csv",
        NormalizeCycleTracking(
            [header |-> << <<"Start">>, <<"Data">>, <<"Value">> >>,
             rows |-> << <<1, "Menstrual Flow",
                           ReadCell(imp.arg.Value, imp.arg.none_is_na)>> >>]))

Call_validate_date_coverage ==
    Returns("validate_date_coverage",
        [raised |-> CoverageRaises(readings),
         missing_days |-> IF readings = <<>> THEN 0 ELSE MissingDays(readings),
         warnings |-> CoverageWarnings(readings)])

Call_detect_resting_hr_anomalies ==
    Returns("detect_resting_hr_anomalies",
        [reported |-> ReportedAnomalies(readings, clock),
         warnings |-> RestingWarnings(readings, clock)])

UnitNext ==
    \/ Call_parse_metric_column
    \/ Call_parse_duration
    \/ Call_import_cycletracking_csv
    \/ Call_validate_date_coverage
    \/ Call_detect_resting_hr_anomalies

UnitSpec == UnitInit /\ [][UnitNext]_vars

\* ------------------------------------------------------------- properties
NewSet(r) == {r.new_files[i][1] : i \in 1..Len(r.new_files)}
ChangedSet(r) == {r.changed_files[i][1] : i \in 1..Len(r.changed_files)}
\* the run has classified its files
Classified == pc \in {"loop", "importer", "raised", "returned", "validated"}
                /\ run.stats.total > 0
\* the records an importer makes of the bytes b
RecordsOf(kind, b) == Normalize(kind, ReadCsv(b)).recs
\* an importer is between its merge and its ledger write, and the merge
\* dropped at least one record of the file
MergeDropped ==
    /\ pc = "importer"
    /\ imp.state = "merged"
    /\ imp.rows_added < Len(RecordsOf(imp.kind, files[imp.f]))

NoDuplicateKeyIn(tab, table) ==
    \A i, j \in 1..Len(table) :
        KeyOf(tab, table[i]) = KeyOf(tab, table[j]) => i = j

IsPrefix(s, t) == Len(s) <= Len(t) /\ SubSeq(t, 1, Len(s)) = s

\* C1: a batch run that follows a completed batch run, with no file written
\* and no other process in between, adds no row: its rows_added is 0 and
\* the three row counts are those the first run left.
C1_Idempotence ==
    (pc = "returned" /\ ~run.dry_run /\ run.after_clean)
        => (run.stats.rows_added = 0 /\ Counts = run.clean_counts)

\* the second run found a file the first run had imported, and skipped it
C1_Witness ==
    /\ pc = "returned" /\ ~run.dry_run /\ run.after_clean
    /\ run.stats.skipped > 0
    /\ run.clean_counts # <<0, 0, 0>>

\* C2: no two rows of readings share (timestamp, metric, source), no two
\* rows of workouts share (start_time, type), no two rows of medications
\* share (timestamp, medication).
C2_NoDuplicateKeys ==
    /\ NoDuplicateKeyIn("readings", readings)
    /\ NoDuplicateKeyIn("workouts", workouts)
    /\ NoDuplicateKeyIn("medications", medications)

\* a workouts import whose merge dropped a record with a key already there
C2_Witness == MergeDropped /\ imp.kind = "workouts" /\ Len(workouts) > 0

\* C3: a step never changes the value or unit of a reading whose key is in
\* the store, and a merge that meets such a key does not fail.
C3_NeverOverwrites ==
    [][/\ \A i \in 1..Len(readings) : \A j \in 1..Len(readings') :
            ReadingKey(readings'[j]) = ReadingKey(readings[i])
                => /\ readings'[j].value = readings[i].value
                   /\ readings'[j].unit = readings[i].unit
       /\ (/\ pc # "importer" /\ pc' = "importer"
           /\ TableOf(imp'.kind) = "readings"
           /\ ~ExistingQueryRaises(imp'.kind)
           /\ ~(imp'.existing /\ ~imp'.is_reimport)
           /\ LET n == Normalize(imp'.kind, ReadCsv(files[imp'.f]))
              IN /\ n.ok /\ ~ViolatesNotNull("readings", n.recs)
                 /\ \E i \in 1..Len(n.recs) :
                        HasKey("readings", readings, ReadingKey(n.recs[i])))
            => imp'.state = "merged"]_vars

\* a re-imported file held another value for a key of the store, and the
\* store still has the first value
C3_Witness ==
    /\ MergeDropped /\ TableOf(imp.kind) = "readings"
    /\ \E i \in 1..Len(readings) :
         \E j \in 1..Len(RecordsOf(imp.kind, files[imp.f])) :
            LET rec == RecordsOf(imp.kind, files[imp.f])[j]
            IN ReadingKey(rec) = ReadingKey(readings[i])
               /\ rec.value # readings[i].value

\* C4: no step removes or changes a row of readings, workouts or
\* medications: each table after a step extends the table before it.
C4_Additive ==
    [][/\ IsPrefix(readings, readings')
       /\ IsPrefix(workouts, workouts')
       /\ IsPrefix(medications, medications')]_vars

\* a changed file was re-imported, it added rows, and older rows are there
C4_Witness ==
    /\ pc = "importer" /\ imp.state = "merged" /\ imp.is_reimport
    /\ imp.rows_added > 0
    /\ Len(Table(TableOf(imp.kind))) > imp.rows_added

\* the files of the run whose ledger record holds their current hash
UnchangedSet(r) ==
    {f \in Range(r.csv_files) :
        f \in DOMAIN r.imported /\ r.imported[f] = calculate_file_hash(files[f])}

\* C5: the classification of a run splits the CSV files it found three
\* ways: new iff the ledger had no record of the name, changed iff it had a
\* record whose hash was null or differed from the file's hash, unchanged
\* iff it had a record with the file's hash; every file is in one class.
C5_Classification ==
    Classified =>
        /\ \A f \in Range(run.csv_files) :
             /\ f \in NewSet(run) <=> f \notin DOMAIN run.imported
             /\ f \in ChangedSet(run) <=>
                   /\ f \in DOMAIN run.imported
                   /\ \/ run.imported[f] = NULL
                      \/ run.imported[f] # calculate_file_hash(files[f])
             /\ ~(f \in NewSet(run) /\ f \in ChangedSet(run))
        /\ NewSet(run) \cup ChangedSet(run) \subseteq Range(run.csv_files)
        /\ run.unchanged_count = Cardinality(UnchangedSet(run))
        /\ Cardinality(NewSet(run)) = Len(run.new_files)
        /\ Cardinality(ChangedSet(run)) = Len(run.changed_files)
        /\ Len(run.new_files) + Len(run.changed_files) + run.unchanged_count
              = Len(run.csv_files)

\* one run found a new file and a file whose record has no hash
C5_Witness ==
    /\ Classified
    /\ NewSet(run) # {}
    /\ \E i \in 1..Len(run.changed_files) : run.changed_files[i][3] = "no_hash"

\* C6: while a run is going on, no importer is entered for a file the run
\* found unchanged and the ledger record of that file stays as it is.
C6_UnchangedSkipped ==
    [][Classified =>
          \A f \in UnchangedSet(run) :
             /\ imp'.f # f
             /\ f \in LedgerNames /\ f \in {imports'[i].filename : i \in 1..Len(imports')}
             /\ imports'[CHOOSE i \in 1..Len(imports') : imports'[i].filename = f]
                   = LedgerRow(f)]_vars

\* a run imports a file while another file of the run is unchanged
C6_Witness ==
    /\ Classified /\ pc = "importer" /\ imp.state = "returned" /\ imp.result > 0
    /\ UnchangedSet(run) # {}

\* the class the next run would give the file f
ClassNow(f) == Classify(get_imported_files, f, calculate_file_hash(files[f]))

\* an importer has just returned success for f after writing the ledger:
\* called by the batch job, or from its own command line when it is an
\* importer that has no hash argument
JustImported(f) ==
    /\ pc = "importer" /\ imp.state = "returned" /\ imp.f = f
    /\ imp.result >= 0
    /\ Len(imports) > Len(imp.ledger_before) \/ imports # imp.ledger_before
    /\ imp.caller = "run" \/ ~TakesHash(imp.kind)

\* C7: once a file of any schema has been imported, the ledger holds the
\* hash of its bytes, so the next run finds it unchanged.
C7_HashStoredForEverySchema ==
    \A f \in Names :
        JustImported(f) =>
            /\ LedgerRow(f).file_hash = calculate_file_hash(files[f])
            /\ ClassNow(f) = "unchanged"

\* the files a run re-processes because their record has no hash, and for
\* which import_file has been called and has not reported a failure
BackfillAttempted(f) ==
    /\ Classified
    /\ \E i \in 1..Len(run.changed_files) :
          run.changed_files[i][1] = f /\ run.changed_files[i][3] = "no_hash"
    /\ run.outcome[f] \in {"ok", "raised"}

\* C8: after the re-processing of a file whose record had no hash, the
\* record carries the hash of the file.
C8_BackfillOnce ==
    \A f \in Names :
        BackfillAttempted(f) =>
            /\ f \in LedgerNames
            /\ LedgerRow(f).file_hash = calculate_file_hash(files[f])

\* every record the importer of f makes of the bytes b has its key in the
\* fact table
AllMerged(f, b) ==
    LET kind == Route(f)
        n == Normalize(kind, ReadCsv(b))
    IN /\ n.ok
       /\ \A i \in 1..Len(n.recs) :
             HasKey(TableOf(kind), Table(TableOf(kind)),
                    KeyOf(TableOf(kind), n.recs[i]))

\* C9: in every state, also after a kill, a ledger record that holds the
\* hash of a file's bytes belongs to a file whose records are all merged.
C9_MergeThenRecord ==
    \A f \in LedgerNames :
        \A b \in {files[f], imported_dir[f]} \ {Absent} :
            LedgerRow(f).file_hash = calculate_file_hash(b) => AllMerged(f, b)

\* the ledger holds the hash of a file in the source folder that has records
C9_Witness ==
    \E f \in LedgerNames :
        /\ files[f] # Absent
        /\ LedgerRow(f).file_hash = calculate_file_hash(files[f])
        /\ RecordsOf(Route(f), files[f]) # <<>>

\* C10: when an importer returns -1 the three tables and the ledger are as
\* they were when it was entered, and a file of a batch run is still new or
\* changed.
C10_FailureLeavesState ==
    (pc = "importer" /\ imp.state = "returned" /\ imp.result = -1)
        => /\ Counts = imp.before
           /\ imports = imp.ledger_before
           /\ imp.caller = "run" => ClassNow(imp.f) # "unchanged"

\* an importer called by the batch job has returned -1
C10_Witness ==
    /\ pc = "importer" /\ imp.state = "returned" /\ imp.result = -1
    /\ imp.caller = "run"

\* the files the two import loops of a run have to hand to import_file
RunFiles(r) == {Items(r)[i].f : i \in 1..Len(Items(r))}

\* the real run has left its import loops: it returned, or it was ended by
\* an exception
LoopsLeft == Classified /\ ~run.dry_run /\ pc \in {"returned", "validated", "raised"}

\* C11: when a real run has left its import loops, every new or changed
\* file of the run has been handed to its importer, whatever happened to the
\* other files, and stats errors counts the files whose import failed.
C11_FailureIsolation ==
    LoopsLeft =>
        /\ \A f \in RunFiles(run) : run.outcome[f] \in {"ok", "failed", "skipped"}
        /\ run.stats.errors =
              Cardinality({f \in RunFiles(run) : run.outcome[f] \in {"failed", "raised"}})

\* the columns an importer parses as timestamps
DateColumns(kind) ==
    CASE kind = "healthkit" -> {DateTimeCol}
      [] kind = "workouts" -> {<<"Start">>, <<"End">>}
      [] kind = "medications" -> {<<"Date">>}
      [] kind = "cycletracking" -> {<<"Start">>}

\* the columns without which an importer gives the file up
RequiredColumns(kind) ==
    CASE kind = "healthkit" -> {DateTimeCol}
      [] kind = "workouts" -> {<<"Type">>, <<"Start">>}
      [] kind = "medications" -> {<<"Date">>, <<"Medication">>}
      [] kind = "cycletracking" -> {<<"Start">>, <<"Data">>, <<"Value">>}

\* the table has every required column, and a cell that does not parse: a
\* timestamp pandas cannot read, or a duration that is not H:M:S
OnlyValueLevelErrors(kind, t) ==
    /\ \A col \in RequiredColumns(kind) : ColIndex(t, col) # 0
    /\ \/ \E col \in DateColumns(kind) : \E i \in 1..Len(t.rows) :
             ColIndex(t, col) # 0 /\ t.rows[i][ColIndex(t, col)] = BadDate
       \/ /\ kind = "workouts"
          /\ ColIndex(t, <<"Duration">>) # 0
          /\ \E i \in 1..Len(t.rows) :
                LET d == t.rows[i][ColIndex(t, <<"Duration">>)]
                IN d # <<>> /\ parse_duration(d) = NULL

\* C12: an importer that has read a file whose columns are all there and that
\* holds a cell it cannot parse does not return -1 for the file.
C12_ValueErrorsNeverAbort ==
    (/\ pc = "importer" /\ imp.state = "returned"
     /\ files[imp.f] # Absent
     /\ ~ExistingQueryRaises(imp.kind)
     /\ OnlyValueLevelErrors(imp.kind, ReadCsv(files[imp.f])))
        => imp.result >= 0

\* the ledger holds the hash of the file f of the source folder
Recorded(f) ==
    f \in LedgerNames /\ LedgerRow(f).file_hash = calculate_file_hash(files[f])

\* the files of the run whose rows have been merged by this run and whose
\* ledger record does not hold their hash
MergedUnrecorded ==
    {f \in RunFiles(run) :
        /\ \/ run.outcome[f] = "ok"
           \/ /\ pc = "importer" /\ imp.caller = "run" /\ imp.f = f
              /\ imp.state = "merged" \/ imp.result >= 0
        /\ ~Recorded(f)}

\* C13: at every point of a real run, where a kill may fall, at most one
\* file has its rows merged and its ledger record not written; and a run
\* that completes after a killed run, over the same files, leaves the three
\* tables as the killed run would have left them had it run to its end, with
\* every file it imported or found unchanged recorded under its hash.
C13_SafeRerun ==
    /\ (Classified /\ ~run.dry_run) => Cardinality(MergedUnrecorded) <= 1
    /\ (pc = "returned" /\ ~run.dry_run /\ run.after_crash) =>
          /\ store = run.expected
          /\ \A f \in Range(run.csv_files) :
                (run.outcome[f] = "ok" \/ f \notin RunFiles(run)) => Recorded(f)

\* a run was killed between the merge of a file and its ledger write, and
\* the next run has imported a file and has completed
C13_Witness ==
    /\ pc = "returned" /\ ~run.dry_run /\ run.after_crash /\ run.torn
    /\ \E f \in RunFiles(run) : run.outcome[f] = "ok"
    /\ readings # <<>> \/ workouts # <<>>

\* C14: a batch run that ends after a file of it produced an error (stats
\* errors > 0, or an exception of an importer) has moved no file to
\* imported/; a run that moved a file had no error.
C14_ArchiveAllOrNothing ==
    pc = "exited" =>
        /\ (\/ run.stats.errors > 0
            \/ \E f \in Names : run.outcome[f] \in {"failed", "raised"})
              => run.moved = {}
        /\ run.moved # {} => run.stats.errors = 0

\* a run with an error has ended, and a file that the ledger knows is still
\* in the source folder
C14_Witness ==
    /\ pc = "exited" /\ run.stats.errors > 0
    /\ files_to_move # {}

\* C15: the status of a batch process that has ended is non-zero exactly
\* when a file of the run failed to import, and so is zero when the run
\* found no CSV file.
C15_ExitContract ==
    (pc = "exited" /\ run.job = "batch") =>
        (exit_code # 0 <=>
            \E f \in Names : run.outcome[f] \in {"failed", "raised"})

C17_ChecksIndependent ==
    run.check_failed # 0 =>
        /\ run.checks_run = 3
        /\ pc # "raised"
        /\ pc = "exited" => exit_code = (IF run.stats.errors > 0 THEN 1 ELSE 0)

\* C18: a file with the glucose prefix is not among the CSV files a batch
\* run finds, nor among its new or changed files, is not handed to
\* import_file, and has no ledger record.
C18_GlucoseExcluded ==
    \A f \in Names :
        StartsWith(f, "HaishanYe_glucose_") =>
            /\ f \notin Range(run.csv_files)
            /\ f \notin NewSet(run) \cup ChangedSet(run)
            /\ run.outcome[f] = "none"
            /\ f \notin LedgerNames

\* the importer the claim gives each prefix
ExpectedRoute(f) ==
    CASE f[1] = "Medications-" -> "medications"
      [] f[1] = "Workouts-" -> "workouts"
      [] f[1] = "CycleTracking-" -> "cycletracking"
      [] f[1] = "HealthMetrics-" -> "healthkit"
      [] f[1] = "HaishanYe_glucose_" -> "skip"
      [] OTHER -> "healthkit"

\* C19: every file a run has handed to import_file took one branch, the one
\* of its prefix, and the importer that runs for a file is the one of its
\* prefix.
C19_Routing ==
    /\ \A f \in Names :
          /\ run.outcome[f] # "none" => run.route[f] = ExpectedRoute(f)
          /\ run.route[f] \in {"none", ExpectedRoute(f)}
    /\ pc = "importer" => imp.kind = ExpectedRoute(imp.f)

\* a run has sent a file with an unknown prefix to the generic importer, which
\* imported it, and has passed over a glucose file
C19_Witness ==
    /\ \E f \in Names :
          /\ f[1] \notin {"Medications-", "Workouts-", "CycleTracking-",
                          "HealthMetrics-", "HaishanYe_glucose_"}
          /\ run.route[f] = "healthkit" /\ run.outcome[f] = "ok"
    /\ \E f \in Names : run.route[f] = "skip"

\* C20: a step leaves every ledger record in its place under its file name
\* and never leaves two records with one file name; the ledger write of a
\* re-import that found a record changes the hash, the timestamp and the
\* row count of that record and adds none.
C20_LedgerShape ==
    [][/\ Len(imports') >= Len(imports)
       /\ \A i \in 1..Len(imports) : imports'[i].filename = imports[i].filename
       /\ \A i, j \in 1..Len(imports') :
             imports'[i].filename = imports'[j].filename => i = j
       /\ (/\ pc = "importer" /\ imp.state = "merged" /\ imp'.state = "returned"
           /\ imp.is_reimport /\ imp.existing) =>
             /\ Len(imports') = Len(imports)
             /\ imports'[LedgerIndex(imp.f)] =
                   [LedgerRow(imp.f) EXCEPT !.file_hash = imp.file_hash,
                                            !.imported_at = clock,
                                            !.rows_added = imp.rows_added]]_vars

\* the re-import of a changed file has returned: the ledger has as many
\* records as before, and the record of the file holds another hash
C20_Witness ==
    /\ pc = "importer" /\ imp.state = "returned" /\ imp.result >= 0
    /\ imp.is_reimport /\ imp.existing
    /\ Len(imports) = Len(imp.ledger_before) /\ Len(imports) >= 1
    /\ imports # imp.ledger_before
    /\ LedgerRow(imp.f).file_hash = imp.file_hash

\* the position of a fact table in Counts
CountIndex(tab) ==
    CASE tab = "readings" -> 1 [] tab = "workouts" -> 2 [] tab = "medications" -> 3

\* the rows the importer being executed has put into its fact table
Inserted == Len(Table(TableOf(imp.kind))) - imp.before[CountIndex(TableOf(imp.kind))]

\* the importer being executed has written the ledger
LedgerWritten == imports # imp.ledger_before

\* the ledger's rows_added of the files the run has imported so far
RECURSIVE LedgerRowsOf(_)
LedgerRowsOf(S) ==
    IF S = {} THEN 0
    ELSE LET f == CHOOSE x \in S : TRUE
         IN LedgerRow(f).rows_added + LedgerRowsOf(S \ {f})

\* C21: the count an importer returns on success is the number of rows its
\* fact table has gained since the importer was entered, the ledger record it
\* wrote holds the same number, and stats rows_added of a run is the sum of
\* these numbers over the files the run has imported.
C21_RowsActuallyAdded ==
    /\ (pc = "importer" /\ imp.state = "returned" /\ imp.result >= 0) =>
          /\ imp.result = Inserted
          /\ LedgerWritten => LedgerRow(imp.f).rows_added = Inserted
    /\ (pc = "importer" /\ imp.state = "merged") => imp.rows_added = Inserted
    /\ (Classified /\ ~run.dry_run) =>
          run.stats.rows_added =
              LedgerRowsOf({f \in RunFiles(run) : run.outcome[f] = "ok"})

\* a run has counted a file whose import added fewer rows than the file has
\* records, and at least one
C21_Witness ==
    /\ Classified /\ ~run.dry_run /\ pc = "returned"
    /\ \E f \in RunFiles(run) :
          /\ run.outcome[f] = "ok"
          /\ LedgerRow(f).rows_added > 0
          /\ LedgerRow(f).rows_added < Len(RecordsOf(Route(f), files[f]))
    /\ run.stats.rows_added > 0

\* C22: no step of a dry run enters an import loop or an importer, runs a
\* check of the validator, or changes the three tables, the ledger, the
\* source folder or imported/: the state a dry run leaves is the state it
\* found, so the run after it does what it would have done without it.
C22_DryRunChangesNothing ==
    [][(run.dry_run \/ run'.dry_run) =>
          /\ store' = store /\ imports' = imports
          /\ files' = files /\ imported_dir' = imported_dir
          /\ hash_column' = hash_column
          /\ pc' \notin {"loop", "importer"}
          /\ run'.checks_run = 0 /\ run'.moved = {}
          /\ run'.stats.imported = 0 /\ run'.stats.rows_added = 0]_vars

\* a dry run that found a new file, and a file the ledger knows, has ended
C22_Witness ==
    /\ pc = "exited" /\ run.dry_run /\ exit_code = 0
    /\ run.stats.new > 0
    /\ files_to_move # {}

\* a check called on its own has returned or raised
Done(fn) == pc = "done" /\ imp.fn = fn

\* the days of the database that have a reading of the metric
DaysWith(metric) ==
    {DateOf(readings[i].timestamp) :
        i \in {j \in 1..Len(readings) : readings[j].metric = metric}}
DaysWithData == {DateOf(readings[i].timestamp) : i \in 1..Len(readings)}

\* the days between the first and the last day with data that have none
GapDays ==
    {d \in SetMin(DaysWithData)..SetMax(DaysWithData) : d \notin DaysWithData}

\* C23: on a database that has readings, validate_date_coverage returns, it
\* reports as gap count the days from the first to the last day with data
\* less the days that have data, and when the count is positive it adds one
\* line for each of the earliest missing days, up to 5, and one "+N more"
\* line beyond 5.
C23_CoverageReport ==
    (Done("validate_date_coverage") /\ readings # <<>>) =>
        /\ ~imp.result.raised
        /\ imp.result.missing_days = Cardinality(GapDays)
        /\ imp.result.warnings =
              IF GapDays = {} THEN 0
              ELSE 1 + Min(Cardinality(GapDays), 5)
                     + (IF Cardinality(GapDays) > 5 THEN 1 ELSE 0)

\* each of the seven calendar days before d has resting-heart-rate data
FullWindow(d) == \A e \in (d - 7)..(d - 1) : e \in DaysWith(RestingHR)

RestingRows(d) ==
    {i \in 1..Len(readings) :
        readings[i].metric = RestingHR /\ DateOf(readings[i].timestamp) = d}
DayTotal(d) == SumOver(RestingRows(d), [i \in RestingRows(d) |-> readings[i].value])
DayCount(d) == Cardinality(RestingRows(d))

\* the average of day d differs by more than 15 from the average of the
\* averages of the seven calendar days before it, which all have data; the
\* averages are fractions DayTotal / DayCount
DeviatesFromCalendarBaseline(d) ==
    LET W == (d - 7)..(d - 1)
        L == ProductOver(W, [e \in W |-> DayCount(e)])
        R == SumOver(W, [e \in W |-> DayTotal(e) * (L \div DayCount(e))])
    IN Abs(DayTotal(d) * L * 7 - DayCount(d) * R) > 15 * DayCount(d) * L * 7

\* C24: every day detect_resting_hr_anomalies reports has resting-heart-rate
\* data on each of the seven calendar days before it, and its average differs
\* by more than 15 from the average of those seven daily averages.
C24_Baseline ==
    Done("detect_resting_hr_anomalies") =>
        \A d \in imp.result.reported :
            FullWindow(d) /\ DeviatesFromCalendarBaseline(d)

\* the days the claim has flagged
ClaimedFlagged ==
    {d \in DaysWith(RestingHR) :
        /\ FullWindow(d)
        /\ d >= clock - 30
        /\ DeviatesFromCalendarBaseline(d)}

\* C25: detect_resting_hr_anomalies reports the five most recent (all, if
\* fewer) of the days that have a seven-day baseline, are no more than 30 days
\* before the day of the check, and differ by more than 15 from the baseline.
C25_AnomalyFlagging ==
    Done("detect_resting_hr_anomalies") =>
        imp.result.reported =
            {d \in ClaimedFlagged :
                Cardinality({e \in ClaimedFlagged : e > d}) < 5}

\* the position of the "(" of a header of the form name ( unit ) whose unit
\* is not empty and holds no parenthesis, 0 if it has not that form
UnitStart(c) ==
    LET n == Len(c)
        ps == {p \in 2..(n - 2) :
                  /\ c[p] = "(" /\ c[n] = ")"
                  /\ \A i \in (p + 1)..(n - 1) : c[i] \notin {"(", ")"}}
    IN IF ps = {} THEN 0 ELSE CHOOSE p \in ps : TRUE

\* C26, as stated: a header name ( unit ) with a unit free of parentheses
\* gives the stripped name and the stripped unit, any other header gives
\* itself and the empty unit.
C26_HeaderParsing ==
    Done("parse_metric_column") =>
        LET c == imp.arg
            p == UnitStart(c)
        IN imp.result =
              IF p = 0 THEN <<c, <<>> >>
              ELSE << Strip(SubSeq(c, 1, p - 1)), Strip(SubSeq(c, p + 1, Len(c) - 1)) >>

\* the position of the first "(" of a header that ends with ")", that is
\* not the first token, and that has a token but no ")" between it and the
\* end, 0 if there is none
FirstOpen(c) ==
    LET n == Len(c)
        ps == {p \in 2..(n - 2) :
                  /\ c[p] = "(" /\ c[n] = ")"
                  /\ \A i \in (p + 1)..(n - 1) : c[i] # ")"}
    IN IF ps = {} THEN 0 ELSE SetMin(ps)

\* C26, amended: the unit is the text between the first "(" that no ")"
\* follows but the last token, and that last ")"; it holds no ")" and may
\* hold "(".  The name is the text before that "(".  Both are stripped.  A
\* header without such a "(" gives itself and the empty unit.
C26_HeaderParsingAmended ==
    Done("parse_metric_column") =>
        LET c == imp.arg
            p == FirstOpen(c)
        IN imp.result =
              IF p = 0 THEN <<c, <<>> >>
              ELSE << Strip(SubSeq(c, 1, p - 1)), Strip(SubSeq(c, p + 1, Len(c) - 1)) >>

\* a header was split into a name and a unit that holds a "("
C26_Witness ==
    /\ Done("parse_metric_column")
    /\ imp.result[2] # <<>>
    /\ \E i \in 1..Len(imp.result[2]) : imp.result[2][i] = "("

\* the part is a numeral with blanks around it
PaddedNumeral(part) ==
    \E i \in 1..Len(part) :
        /\ part[i] \in DOMAIN Numerals
        /\ \A j \in 1..Len(part) : j # i => part[j] = " "
ValueOfPart(part) ==
    Numerals[part[CHOOSE i \in 1..Len(part) : part[i] \in DOMAIN Numerals]]

\* the seconds of a text H:M:S or M:S, NULL for any other text
SecondsOf(d) ==
    LET n == Len(d)
        colons == {i \in 1..n : d[i] = ":"}
        i1 == SetMin(colons)
        i2 == SetMax(colons)
    IN IF Cardinality(colons) = 2
          /\ PaddedNumeral(SubSeq(d, 1, i1 - 1))
          /\ PaddedNumeral(SubSeq(d, i1 + 1, i2 - 1))
          /\ PaddedNumeral(SubSeq(d, i2 + 1, n))
       THEN ValueOfPart(SubSeq(d, 1, i1 - 1)) * 3600
            + ValueOfPart(SubSeq(d, i1 + 1, i2 - 1)) * 60
            + ValueOfPart(SubSeq(d, i2 + 1, n))
       ELSE IF Cardinality(colons) = 1
          /\ PaddedNumeral(SubSeq(d, 1, i1 - 1))
          /\ PaddedNumeral(SubSeq(d, i1 + 1, n))
       THEN ValueOfPart(SubSeq(d, 1, i1 - 1)) * 60
            + ValueOfPart(SubSeq(d, i1 + 1, n))
       ELSE NULL

\* C27: the import of a workout row with any Duration text succeeds and
\* keeps the row, with the seconds of a text H:M:S or M:S as its duration
\* and with a null duration for any other text.
C27_DurationParsing ==
    Done("parse_duration") =>
        /\ imp.result.ok
        /\ Len(imp.result.recs) = 1
        /\ imp.result.recs[1].duration_seconds = SecondsOf(imp.arg)

\* the row with the duration 01:02:03 was kept with 3723 seconds
C27_Witness ==
    /\ Done("parse_duration")
    /\ imp.arg = <<"01", ":", "02", ":", "03">>
    /\ imp.result.recs[1].duration_seconds = 3723

\* the number the claim gives a label
ClaimedValue(label) ==
    CASE label \in {"Unspecified", "None", "No"} -> 0
      [] label \in {"Light", "Yes"} -> 1
      [] label = "Medium" -> 2
      [] label = "Heavy" -> 3
      [] OTHER -> 0

\* C28: the import of a CycleTracking row whose Value is a label makes one
\* reading of it, with the number of the label (0 for an unknown label), the
\* label itself as unit and the metric "Cycle Tracking - {Data}".
C28_CycleValueMapping ==
    (Done("import_cycletracking_csv") /\ imp.arg.Value \notin {"", "2"}) =>
        /\ imp.result.ok
        /\ imp.result.recs =
              << [timestamp |-> 1,
                  metric |-> <<"Cycle Tracking - ", "Menstrual Flow">>,
                  value |-> ClaimedValue(imp.arg.Value),
                  unit |-> <<imp.arg.Value>>,
                  source |-> "cycletracking"] >>

\* C30: when a batch process has ended, every file it moved is in imported/
\* and no longer in the source folder, and the ledger has a record of its
\* name with the hash of its bytes; every CSV the run found that has no
\* ledger record was not moved and is still in the source folder.
C30_ArchiveInvariant ==
    (pc = "exited" /\ run.job = "batch") =>
        /\ \A f \in run.moved :
              /\ f \in LedgerNames
              /\ files[f] = Absent /\ imported_dir[f] # Absent
              /\ LedgerRow(f).file_hash = calculate_file_hash(imported_dir[f])
        /\ \A f \in Range(run.csv_files) :
              f \notin LedgerNames => (f \notin run.moved /\ files[f] # Absent)

\* a run has moved a file and has left a file without a ledger record
C30_Witness ==
    /\ pc = "exited" /\ run.job = "batch"
    /\ run.moved # {}
    /\ \E f \in Range(run.csv_files) : f \notin LedgerNames /\ files[f] # Absent

\* C29: the hash an importer called by a run has written to the ledger is
\* the hash of the bytes it read and merged, and the ledger holds the hash of
\* no file content the exporter can write whose records are not all merged.
C29_HashOfMergedBytes ==
    /\ (/\ pc = "importer" /\ imp.caller = "run"
        /\ imp.state = "returned" /\ imp.result >= 0
        /\ LedgerWritten)
          => LedgerRow(imp.f).file_hash = calculate_file_hash(files[imp.f])
    /\ \A f \in LedgerNames :
          \A b \in Exports(f) :
              LedgerRow(f).file_hash = calculate_file_hash(b) => AllMerged(f, b)

====
